---- MODULE Spec2Model ----
(***************************************************************************)
(* Model of opencv_examples/c_examples/example05/example05.c: the driver   *)
(* main() that loads a colour image, allocates two grayscale images,       *)
(* converts once with cvCvtColor and once with a hand written pixel loop,  *)
(* shows three windows, waits for a key and releases the images.           *)
(*                                                                         *)
(* The arithmetic of line 181 is modelled as the C compiler evaluates it   *)
(* with FLT_EVAL_METHOD 0: the literals are IEEE binary64 values, every    *)
(* product and sum is rounded to binary64 (round to nearest, ties to       *)
(* even) and the result is truncated toward zero by the store into an      *)
(* unsigned char.  Binary64 values are held as fixed point numbers in      *)
(* units of 2^-56, in five little-endian limbs of 14 bits.                 *)
(***************************************************************************)
EXTENDS Integers, Sequences, FiniteSets, TLC

\* ------------------------------------------------------------------ bounds
MaxWidth  == 2
MaxHeight == 2
MaxPad    == 1

\* Pixels (B, G, R) the decoder can deliver, and the byte values found in
\* row padding and in freshly allocated, uninitialised image data.
Pixels     == {<<10, 20, 30>>, <<128, 128, 128>>}
CanaryVals == {85, 170}

NULL == "NULL"

\* ------------------------------------------------- binary64 arithmetic
Base   == 16384
NLimbs == 5

\* The literals 0.299, 0.587 and 0.114 as the nearest binary64 values,
\* in units of 2^-56 (21545220617340452, 42297807700263696 and
\* 8214565720323785 of them).
D299 == <<1572, 5636, 13369, 4898, 0>>
D587 == <<784, 11010, 6684, 9617, 0>>
D114 == <<14025, 16121, 12713, 1867, 0>>

RECURSIVE MulCarry(_, _, _, _)
MulCarry(x, v, i, carry) ==
    IF i > NLimbs THEN <<>>
    ELSE LET t == x[i] * v + carry
         IN  <<t % Base>> \o MulCarry(x, v, i + 1, t \div Base)

\* exact product of a binary64 value and an integer 0..255
MulExact(x, v) == MulCarry(x, v, 1, 0)

RECURSIVE AddCarry(_, _, _, _)
AddCarry(x, y, i, carry) ==
    IF i > NLimbs THEN <<>>
    ELSE LET t == x[i] + y[i] + carry
         IN  <<t % Base>> \o AddCarry(x, y, i + 1, t \div Base)

\* exact sum of two values
AddExact(x, y) == AddCarry(x, y, 1, 0)

RECURSIVE BitLenSmall(_)
BitLenSmall(n) == IF n = 0 THEN 0 ELSE 1 + BitLenSmall(n \div 2)

RECURSIVE TopLimb(_, _)
TopLimb(x, i) == IF i = 0 THEN 0 ELSE IF x[i] # 0 THEN i ELSE TopLimb(x, i - 1)

\* number of significant bits of the value
BitLen(x) ==
    LET t == TopLimb(x, NLimbs)
    IN  IF t = 0 THEN 0 ELSE 14 * (t - 1) + BitLenSmall(x[t])

RECURSIVE Pow2(_)
Pow2(k) == IF k = 0 THEN 1 ELSE 2 * Pow2(k - 1)

\* Rounding of an exact value to binary64: keep 53 significant bits, round
\* to nearest, ties to even.  The values of line 181 are below 2^8, so at
\* most 11 low bits are dropped and they all lie in the lowest limb.
RoundDouble(x) ==
    LET k == BitLen(x) - 53
    IN  IF k <= 0 THEN x
        ELSE LET p    == Pow2(k)
                 rem  == x[1] % p
                 half == p \div 2
                 odd  == (x[1] \div p) % 2 = 1
                 down == [x EXCEPT ![1] = x[1] - rem]
             IN  IF rem > half \/ (rem = half /\ odd)
                 THEN AddExact(down, <<p, 0, 0, 0, 0>>)
                 ELSE down

\* double * unsigned char, and double + double, as the machine computes them
MulDouble(x, v) == RoundDouble(MulExact(x, v))
AddDouble(x, y) == RoundDouble(AddExact(x, y))

\* conversion of a double in [0, 256) to unsigned char: truncation toward
\* zero; the integer part is the limb of bits 56..69
TruncToUChar(x) == x[5] % 256

\* line 181: gray = 0.299 * red + 0.587 * green + 0.114 * blue;
GrayValue(r, g, b) ==
    TruncToUChar(AddDouble(AddDouble(MulDouble(D299, r), MulDouble(D587, g)),
                           MulDouble(D114, b)))

\* ------------------------------------------------------------- state
VARIABLES
    pc,          \* position of main()
    argc,        \* number of command line words
    status,      \* value returned by main(), "running" before it returns
    colorimg,    \* the three IplImage pointers: NULL or the image's name
    grayimg,
    mygrayimg,
    acquired,    \* images the libraries have handed to the driver
    released,    \* how often each image's memory has been freed
    width,       \* colorimg->width
    height,      \* colorimg->height
    colorstep,   \* colorimg->widthStep / sizeof(uchar)
    graystep,    \* mygrayimg->widthStep / sizeof(uchar)
    colorData,   \* bytes of colorimg->imageData, by offset
    grayData,    \* bytes of mygrayimg->imageData, by offset
    row, col,    \* loop counters
    blue, green, red, gray,    \* locals of the loop body
    grayFilled,  \* cvCvtColor has filled grayimg
    windows,     \* names of the windows that exist
    shown,       \* window name -> the image shown there, NULL if none
    keyPressed,  \* cvWaitKey has returned
    \* observation of the run, never read by the program
    colorData0,  \* source bytes as loaded
    grayData0,   \* destination bytes as allocated
    readLog,     \* <<row, source offset>> of every source byte read
    writeLog,    \* destination offsets in the order they were written
    \* a second decoding of the same picture: same width, height and pixel
    \* bytes, another widthStep and other padding bytes, run through the
    \* same loop in step with the first
    altstep, altData, altGray

vars == <<pc, argc, status, colorimg, grayimg, mygrayimg, acquired, released,
          width, height, colorstep, graystep, colorData, grayData, row, col,
          blue, green, red, gray, grayFilled, windows, shown, keyPressed,
          colorData0, grayData0, readLog, writeLog, altstep, altData, altGray>>

imgVars  == <<width, height, colorstep, colorData, colorData0,
              altstep, altData>>
destVars == <<graystep, grayData, grayData0, altGray>>
loopVars == <<row, col, blue, green, red, gray, readLog, writeLog>>
uiVars   == <<windows, shown, keyPressed>>
ptrVars  == <<colorimg, grayimg, mygrayimg, acquired, released>>

ImageNames  == {"colorimg", "grayimg", "mygrayimg"}
WindowNames == {"color", "gray", "mygray"}

\* ----------------------------------------------------- library effects
\* imageData of a 3 channel image of w x h pixels with the given widthStep:
\* pixel (r, c) occupies offsets r*step + 3c .. r*step + 3c + 2 in B, G, R
\* order, the remaining bytes of each row are padding.
MakeColorData(img, w, h, step, fill) ==
    [i \in 0..(h * step - 1) |->
        LET r == i \div step
            k == i % step
        IN  IF k < 3 * w THEN img[r * w + (k \div 3) + 1][(k % 3) + 1]
                         ELSE fill]

\* cvCreateImage does not initialise the pixel data
MakeGrayData(h, step, fill) == [i \in 0..(h * step - 1) |-> fill]

\* cvReleaseImage(&p): frees the image p points to and sets p to NULL;
\* does nothing when p is NULL already
ReleasedAfter(p, rel) ==
    IF p = NULL THEN rel ELSE [rel EXCEPT ![p] = rel[p] + 1]

\* ------------------------------------------------------ pieces of main
ArgsMissingOff(n) == n < 1
\* line 22: if(argc < 2)
ArgsMissing(n) == n < 2

\* line 173: row < colorimg->height
RowCond(r, h) == r < h

ColCondOff(c, w) == c < w - 1
\* line 174: col < colorimg->width
ColCond(c, w) == c < w

ColorIndexMirror(r, c, k, step) == r * step + (step - 1) - (c + k)
\* lines 176-178: colorData[row * colorstep + col + k], k = 0, 1, 2
ColorIndex(r, c, k, step) == r * step + c + k

GrayIndexMirror(r, c, step) == r * step + (step - 1) - c
\* line 184: grayData[row * graystep + col]
GrayIndex(r, c, step) == r * step + c

\* ----------------------------------------------------------------- Init
Init ==
    /\ pc = "start"
    /\ argc \in {1, 2}
    /\ status = "running"
    /\ colorimg = NULL /\ grayimg = NULL /\ mygrayimg = NULL
    /\ acquired = {}
    /\ released = [n \in ImageNames |-> 0]
    /\ width = 0 /\ height = 0 /\ colorstep = 0 /\ graystep = 0
    /\ colorData = <<>> /\ grayData = <<>>
    /\ row = 0 /\ col = 0
    /\ blue = 0 /\ green = 0 /\ red = 0 /\ gray = 0
    /\ grayFilled = FALSE
    /\ windows = {}
    /\ shown = [w \in WindowNames |-> NULL]
    /\ keyPressed = FALSE
    /\ colorData0 = <<>> /\ grayData0 = <<>>
    /\ readLog = {} /\ writeLog = <<>>
    /\ altstep = 0 /\ altData = <<>> /\ altGray = <<>>

\* -------------------------------------------------------------- actions
\* lines 22-25
NoArgument ==
    /\ pc = "start"
    /\ ArgsMissing(argc)
    /\ status' = -1
    /\ pc' = "done"
    /\ UNCHANGED <<argc, ptrVars, imgVars, destVars, loopVars, grayFilled,
                   uiVars>>

\* lines 31-38, the decoder returns no image
LoadFails ==
    /\ pc = "start"
    /\ ~ArgsMissing(argc)
    /\ colorimg' = NULL
    /\ status' = -1
    /\ pc' = "done"
    /\ UNCHANGED <<argc, grayimg, mygrayimg, acquired, released, imgVars,
                   destVars, loopVars, grayFilled, uiVars>>

\* lines 31-38 and 67-73, the decoder returns an image
LoadImage ==
    /\ pc = "start"
    /\ ~ArgsMissing(argc)
    /\ \E w \in 1..MaxWidth, h \in 1..MaxHeight, pad \in 0..MaxPad,
          apad \in 0..MaxPad, fill \in CanaryVals, afill \in CanaryVals :
        \E img \in [1..(w * h) -> Pixels] :
            /\ apad # pad
            /\ afill # fill
            \* the fill of a buffer without padding is never seen
            /\ pad = 0 => fill = 85
            /\ width' = w
            /\ height' = h
            /\ colorstep' = 3 * w + pad
            /\ colorData' = MakeColorData(img, w, h, 3 * w + pad, fill)
            /\ altstep' = 3 * w + apad
            /\ altData' = MakeColorData(img, w, h, 3 * w + apad, afill)
    /\ colorData0' = colorData'
    /\ colorimg' = "colorimg"
    /\ acquired' = acquired \cup {"colorimg"}
    /\ pc' = "creategray"
    /\ UNCHANGED <<argc, status, grayimg, mygrayimg, released, destVars,
                   loopVars, grayFilled, uiVars>>

\* lines 78-87, cvCreateImage returns NULL for grayimg
CreateGrayFails ==
    /\ pc = "creategray"
    /\ grayimg' = NULL
    /\ released' = ReleasedAfter(colorimg, released)
    /\ colorimg' = NULL
    /\ status' = -1
    /\ pc' = "done"
    /\ UNCHANGED <<argc, mygrayimg, acquired, imgVars, destVars, loopVars,
                   grayFilled, uiVars>>

\* lines 78-83, grayimg is allocated
CreateGray ==
    /\ pc = "creategray"
    /\ grayimg' = "grayimg"
    /\ acquired' = acquired \cup {"grayimg"}
    /\ pc' = "createmygray"
    /\ UNCHANGED <<argc, status, colorimg, mygrayimg, released, imgVars,
                   destVars, loopVars, grayFilled, uiVars>>

\* lines 90-97, cvCreateImage returns NULL for mygrayimg
CreateMyGrayFails ==
    /\ pc = "createmygray"
    /\ mygrayimg' = NULL
    /\ released' = ReleasedAfter(grayimg, ReleasedAfter(colorimg, released))
    /\ colorimg' = NULL
    /\ grayimg' = NULL
    /\ status' = -1
    /\ pc' = "done"
    /\ UNCHANGED <<argc, acquired, imgVars, destVars, loopVars, grayFilled,
                   uiVars>>

\* lines 90-92, mygrayimg is allocated: 1 channel, width x height, its
\* own widthStep, pixel data not initialised
CreateMyGray ==
    /\ pc = "createmygray"
    /\ mygrayimg' = "mygrayimg"
    /\ acquired' = acquired \cup {"mygrayimg"}
    /\ \E pad \in 0..MaxPad, fill \in CanaryVals :
        /\ graystep' = width + pad
        /\ grayData' = MakeGrayData(height, width + pad, fill)
    /\ grayData0' = grayData'
    /\ altGray' = grayData'
    /\ pc' = "cvtcolor"
    /\ UNCHANGED <<argc, status, colorimg, grayimg, released, imgVars,
                   loopVars, grayFilled, uiVars>>

\* line 124: cvCvtColor(colorimg, grayimg, CV_BGR2GRAY)
CvtColor ==
    /\ pc = "cvtcolor"
    /\ grayFilled' = TRUE
    /\ pc' = "rowtest"
    /\ row' = 0
    /\ UNCHANGED <<argc, status, ptrVars, imgVars, destVars, col, blue, green,
                   red, gray, readLog, writeLog, uiVars>>

\* line 173, the test of the outer loop; when it holds, col = 0 of line 174
RowTest ==
    /\ pc = "rowtest"
    /\ IF RowCond(row, height)
       THEN col' = 0 /\ pc' = "coltest"
       ELSE col' = col /\ pc' = "namedwindows"
    /\ UNCHANGED <<argc, status, ptrVars, imgVars, destVars, row, blue, green,
                   red, gray, readLog, writeLog, grayFilled, uiVars>>

\* line 174, the test of the inner loop; when it fails, ++row of line 173
ColTest ==
    /\ pc = "coltest"
    /\ IF ColCond(col, width)
       THEN row' = row /\ pc' = "body"
       ELSE row' = row + 1 /\ pc' = "rowtest"
    /\ UNCHANGED <<argc, status, ptrVars, imgVars, destVars, col, blue, green,
                   red, gray, readLog, writeLog, grayFilled, uiVars>>

\* lines 176-184 and ++col of line 174: one pixel
Body ==
    /\ pc = "body"
    /\ LET bi == ColorIndex(row, col, 0, colorstep)
           gi == ColorIndex(row, col, 1, colorstep)
           ri == ColorIndex(row, col, 2, colorstep)
           y  == GrayValue(colorData[ri], colorData[gi], colorData[bi])
           ya == GrayValue(altData[ColorIndex(row, col, 2, altstep)],
                           altData[ColorIndex(row, col, 1, altstep)],
                           altData[ColorIndex(row, col, 0, altstep)])
           di == GrayIndex(row, col, graystep)
       IN  /\ blue' = colorData[bi]
           /\ green' = colorData[gi]
           /\ red' = colorData[ri]
           /\ gray' = y
           /\ grayData' = [grayData EXCEPT ![di] = y]
           /\ altGray' = [altGray EXCEPT ![di] = ya]
           /\ readLog' = readLog \cup {<<row, bi>>, <<row, gi>>, <<row, ri>>}
           /\ writeLog' = Append(writeLog, di)
    /\ col' = col + 1
    /\ pc' = "coltest"
    /\ UNCHANGED <<argc, status, ptrVars, imgVars, graystep, grayData0, row,
                   grayFilled, uiVars>>

\* lines 189-204: the three windows are created and placed
NamedWindows ==
    /\ pc = "namedwindows"
    /\ windows' = {"color", "gray", "mygray"}
    /\ pc' = "showimages"
    /\ UNCHANGED <<argc, status, ptrVars, imgVars, destVars, loopVars,
                   grayFilled, shown, keyPressed>>

\* lines 206-208
ShowImages ==
    /\ pc = "showimages"
    /\ shown' = [shown EXCEPT !["color"] = colorimg,
                              !["gray"] = grayimg,
                              !["mygray"] = grayimg]
    /\ pc' = "waitkey"
    /\ UNCHANGED <<argc, status, ptrVars, imgVars, destVars, loopVars,
                   grayFilled, windows, keyPressed>>

\* line 210: cvWaitKey(0) returns when the user presses a key
WaitKey ==
    /\ pc = "waitkey"
    /\ keyPressed' = TRUE
    /\ pc' = "cleanup"
    /\ UNCHANGED <<argc, status, ptrVars, imgVars, destVars, loopVars,
                   grayFilled, windows, shown>>

\* lines 213-218: cvReleaseImage(&colorimg) twice, cvDestroyAllWindows,
\* return 0
Cleanup ==
    /\ pc = "cleanup"
    /\ released' = ReleasedAfter(NULL, ReleasedAfter(colorimg, released))
    /\ colorimg' = NULL
    /\ windows' = {}
    /\ status' = 0
    /\ pc' = "done"
    /\ UNCHANGED <<argc, grayimg, mygrayimg, acquired, imgVars, destVars,
                   loopVars, grayFilled, shown, keyPressed>>

Next ==
    \/ NoArgument
    \/ LoadFails
    \/ LoadImage
    \/ CreateGrayFails
    \/ CreateGray
    \/ CreateMyGrayFails
    \/ CreateMyGray
    \/ CvtColor
    \/ RowTest
    \/ ColTest
    \/ Body
    \/ NamedWindows
    \/ ShowImages
    \/ WaitKey
    \/ Cleanup

Spec == Init /\ [][Next]_vars

\* ---------------------------------------------------------- properties
Rows == 0..(height - 1)
Cols == 0..(width - 1)

InLoop == pc \in {"rowtest", "coltest", "body"}

\* the grayscale loop has finished
AfterLoop == pc \in {"namedwindows", "showimages", "waitkey", "cleanup"}
             \/ (pc = "done" /\ mygrayimg # NULL)

\* floor(0.299 r + 0.587 g + 0.114 b) in exact arithmetic
GrayValueExact(r, g, b) == (299 * r + 587 * g + 114 * b) \div 1000

\* the luminance of pixel (r, c) of the source, by the formula of the
\* specification: B, G, R at offsets 3c, 3c+1, 3c+2 of row r
Luma(r, c) ==
    GrayValueExact(colorData[r * colorstep + 3 * c + 2],
                   colorData[r * colorstep + 3 * c + 1],
                   colorData[r * colorstep + 3 * c])

\* C1: when the loop has finished, every destination byte (r, c) equals
\* floor(0.299 R + 0.587 G + 0.114 B) of the source pixel (r, c).
C1_EveryPixelIsLuma ==
    AfterLoop => \A r \in Rows, c \in Cols :
                    grayData[r * graystep + c] = Luma(r, c)

\* C2: for a source of width 1, the destination byte of every row r equals
\* floor(0.299 R + 0.587 G + 0.114 B) of the first three bytes of source
\* row r, whatever the padding.
C2_WidthOneIsLuma ==
    (AfterLoop /\ width = 1) =>
        \A r \in Rows : grayData[r * graystep] = Luma(r, 0)

\* C3: the loop writes only offsets r*graystep + c with c < width: every
\* padding byte of the destination keeps the value it had before the loop
\* and no byte of the source changes.
C3_OnlyPixelsWritten ==
    mygrayimg # NULL =>
        /\ \A i \in 1..Len(writeLog) :
               \E r \in Rows, c \in Cols : writeLog[i] = r * graystep + c
        /\ \A r \in Rows, k \in width..(graystep - 1) :
               grayData[r * graystep + k] = grayData0[r * graystep + k]
        /\ colorData = colorData0

C3_Witness ==
    /\ AfterLoop
    /\ graystep > width
    /\ height > 1
    /\ \A r \in Rows, c \in Cols :
           grayData[r * graystep + c] # grayData0[r * graystep + c]

\* C4: every source offset read while row r is visited lies in
\* [r*colorstep, r*colorstep + 3*width) and inside the source buffer.
C4_ReadsInsideRow ==
    \A e \in readLog :
        /\ e[1] * colorstep <= e[2]
        /\ e[2] < e[1] * colorstep + 3 * width
        /\ e[2] < height * colorstep

C4_Witness ==
    /\ AfterLoop
    /\ colorstep > 3 * width
    /\ Cardinality({e[1] : e \in readLog}) = height
    /\ height > 1

\* C5: two source buffers with the same pixels but different strides and
\* different padding bytes give the same destination bytes at every (r, c).
C5_StrideIndependent ==
    AfterLoop => \A r \in Rows, c \in Cols :
                    grayData[r * graystep + c] = altGray[r * graystep + c]

C5_Witness ==
    /\ AfterLoop
    /\ altstep # colorstep
    /\ height > 1
    /\ width > 1
    /\ \E i \in DOMAIN colorData \cap DOMAIN altData :
           colorData[i] # altData[i]

\* C6: a source whose every pixel is (v, v, v) gives v at every destination
\* position, and every stored value is in 0..255.
C6_UniformGivesSame ==
    AfterLoop =>
        /\ \A v \in 0..255 :
               (\A r \in Rows, c \in Cols, k \in 0..2 :
                    colorData[r * colorstep + 3 * c + k] = v)
               => \A r \in Rows, c \in Cols : grayData[r * graystep + c] = v
        /\ \A r \in Rows, c \in Cols : grayData[r * graystep + c] \in 0..255

\* C7: when the driver returns after the source image was loaded, every
\* image acquired so far has been released exactly once.
C7_ReleasedExactlyOnce ==
    (pc = "done" /\ "colorimg" \in acquired) =>
        \A n \in acquired : released[n] = 1

NothingDone ==
    /\ acquired \cap {"grayimg", "mygrayimg"} = {}
    /\ ~grayFilled
    /\ writeLog = <<>>
    /\ windows = {}
    /\ \A w \in WindowNames : shown[w] = NULL

\* C8: the driver returns non-zero without a positional argument and when
\* the decoder returns no image, in both cases without allocating a gray
\* buffer, converting or opening a window; it returns 0 only after loading,
\* both allocations, both conversions, the display and the key press.
C8_ExitStatus ==
    pc = "done" =>
        /\ argc < 2 => (status # 0 /\ NothingDone)
        /\ (argc >= 2 /\ "colorimg" \notin acquired)
               => (status # 0 /\ NothingDone)
        /\ status = 0 =>
               /\ acquired = ImageNames
               /\ grayFilled
               /\ Len(writeLog) = width * height
               /\ \A w \in WindowNames : shown[w] # NULL
               /\ keyPressed

C8_Witness == pc = "done" /\ status = 0 /\ keyPressed /\ argc = 2

\* C9: while the driver waits for the key, window "color" shows the source,
\* "gray" shows grayimg and "mygray" shows mygrayimg, each filled before it
\* was shown.
C9_WindowsShowTheirImage ==
    pc = "waitkey" =>
        /\ shown["color"] = "colorimg"
        /\ shown["gray"] = "grayimg" /\ grayFilled
        /\ shown["mygray"] = "mygrayimg"
        /\ Len(writeLog) = width * height

\* the k-th write of a row-major walk
RowMajor(k) == ((k - 1) \div width) * graystep + ((k - 1) % width)

\* C10: the loop ends after exactly width*height iterations, having written
\* every destination position once, in row-major order.  While it runs the
\* number of iterations done is row*width + col, which the loop tests bound
\* by width*height: the loop cannot run longer.
C10_TerminatesRowMajor ==
    /\ (InLoop \/ AfterLoop) =>
           /\ Len(writeLog) <= width * height
           /\ \A k \in 1..Len(writeLog) : writeLog[k] = RowMajor(k)
    /\ pc = "rowtest" => (row <= height /\ Len(writeLog) = row * width)
    /\ pc = "coltest" => (row < height /\ col <= width
                          /\ Len(writeLog) = row * width + col)
    /\ pc = "body" => (row < height /\ col < width
                       /\ Len(writeLog) = row * width + col)
    /\ AfterLoop =>
           /\ Len(writeLog) = width * height
           /\ \A r \in Rows, c \in Cols :
                  Cardinality({k \in 1..Len(writeLog) :
                                   writeLog[k] = r * graystep + c}) = 1

C10_Witness ==
    /\ pc = "namedwindows"
    /\ width = MaxWidth /\ height = MaxHeight
    /\ Len(writeLog) = MaxWidth * MaxHeight

====
